---- MODULE Spec2Model ----
(***************************************************************************)
(* ISO 15004-2 small-spot laser safety calculator                          *)
(* (src/ISO_Smallspot_Safety_Calculator.py).                               *)
(*                                                                         *)
(* The program is three pure functions: parse_value, nearest_nm and        *)
(* iso15004_smallspot.  Each is modelled as one call action that takes its *)
(* arguments from a bounded set and stores the outcome (the returned value *)
(* or the exception raised), followed by the return to the caller.         *)
(*                                                                         *)
(* Python floats.  iso15004_smallspot only multiplies, divides, raises to  *)
(* a power and compares, so a float is kept as sign and decimal logarithm  *)
(* of its magnitude, in thousandths of a decade: multiplication adds the   *)
(* logarithms, division subtracts them.  The finite range of binary64 is   *)
(* kept (a magnitude above the largest float becomes inf, one below the    *)
(* smallest subnormal becomes 0.0), and so are inf, nan, None and the      *)
(* ZeroDivisionError of a float division by zero.  The rounding of the     *)
(* 53-bit mantissa is not modelled: every equality below is an equality    *)
(* up to floating-point rounding.                                          *)
(***************************************************************************)
EXTENDS Integers, Sequences, FiniteSets, TLC

VARIABLES pc, args, out

vars == <<pc, args, out>>

(***************************************************************************)
(* float                                                                   *)
(***************************************************************************)

\* log10 of the largest finite binary64 (1.7977e308), in thousandths of a decade
MaxLog == 308254

\* log10 of the smallest positive binary64 (4.94e-324), in thousandths of a decade
MinLog == -323306

\* one decade, in the unit of the logarithms
Decade == 1000

None == [k |-> "None", s |-> 1, l |-> 0]

Zero == [k |-> "zero", s |-> 1, l |-> 0]

Nan == [k |-> "nan", s |-> 1, l |-> 0]

Inf(sign) == [k |-> "inf", s |-> sign, l |-> 0]

Fin(sign, lg) == [k |-> "fin", s |-> sign, l |-> lg]

\* float('inf')
PosInf == Inf(1)

\* the float nearest to sign * 10^(lg/Decade): overflow gives inf, underflow 0.0
Round(sign, lg) ==
    IF lg > MaxLog THEN Inf(sign)
    ELSE IF lg < MinLog THEN Zero
    ELSE Fin(sign, lg)

\* log10 of the mantissas of the literals of the program, in thousandths of a decade
Log10M ==
    (1 :> 0) @@ (2 :> 301) @@ (3 :> 477) @@ (4 :> 602) @@ (5 :> 699) @@
    (6 :> 778) @@ (8 :> 903) @@ (9 :> 954) @@ (10 :> 1000) @@ (17 :> 1230) @@
    (18 :> 1255) @@ (22 :> 1342) @@ (32 :> 1505) @@ (40 :> 1602) @@
    (42 :> 1623) @@ (55 :> 1740) @@ (59 :> 1771) @@ (62 :> 1792) @@
    (63 :> 1799) @@ (94 :> 1973) @@ (97 :> 1987) @@ (98 :> 1991)

\* the float literal m * 10^e, m > 0
Dec(m, e) == Round(1, Log10M[m] + e * Decade)

\* math.pi
Pi == Fin(1, 497)

\* -x
Neg(x) == IF x.k \in {"fin", "inf"} THEN [x EXCEPT !.s = -x.s] ELSE x

\* x * y
Mul(x, y) ==
    IF x.k = "nan" \/ y.k = "nan" THEN Nan
    ELSE IF x.k = "zero" \/ y.k = "zero"
         THEN (IF x.k = "inf" \/ y.k = "inf" THEN Nan ELSE Zero)
    ELSE IF x.k = "inf" \/ y.k = "inf" THEN Inf(x.s * y.s)
    ELSE Round(x.s * y.s, x.l + y.l)

\* x / y raises ZeroDivisionError
DivRaises(x, y) == y.k = "zero"

\* x / y, y # 0
Div(x, y) ==
    IF x.k = "nan" \/ y.k = "nan" THEN Nan
    ELSE IF x.k = "inf" THEN (IF y.k = "inf" THEN Nan ELSE Inf(x.s * y.s))
    ELSE IF y.k = "inf" \/ x.k = "zero" THEN Zero
    ELSE Round(x.s * y.s, x.l - y.l)

\* x ** (n/d) for x > 0 (inf included), 0 < n/d
Pow(x, n, d) ==
    IF x.k = "fin" THEN Round(1, (x.l * n) \div d) ELSE x

\* the place of a float that is not nan in the order of the floats
Rank(x) ==
    CASE x.k = "inf" -> 2 * x.s
      [] x.k = "fin" -> x.s
      [] OTHER -> 0

\* x < y; False when either is nan
Lt(x, y) ==
    /\ x.k # "nan" /\ y.k # "nan"
    /\ \/ Rank(x) < Rank(y)
       \/ /\ Rank(x) = Rank(y)
          /\ x.k = "fin"
          /\ IF x.s = 1 THEN x.l < y.l ELSE x.l > y.l

\* x > y
Gt(x, y) == Lt(y, x)

\* x <= y; False when either is nan
Le(x, y) == x.k # "nan" /\ y.k # "nan" /\ ~Lt(y, x)

\* bool(x) of a float or None: None and 0.0 are false, nan and inf are true
Truthy(x) == x.k \notin {"None", "zero"}

(***************************************************************************)
(* Spectral weighting tables and nearest_nm                                *)
(***************************************************************************)

\* the items of the dict literal R_TABLE, in the order written
R_ITEMS ==
    << <<400, Dec(2, 0)>>, <<410, Dec(2, 0)>>, <<420, Dec(2, 0)>>,
       <<430, Dec(2, 0)>>, <<440, Dec(2, 0)>>, <<450, Dec(2, 0)>>,
       <<455, Dec(2, 0)>>, <<460, Dec(2, 0)>>, <<470, Dec(2, 0)>>,
       <<480, Dec(2, 0)>>, <<490, Dec(2, 0)>>, <<500, Dec(2, 0)>> >>

\* B_ITEMS with the items of 430 and 440 nm exchanged
B_ITEMS_PeakMoved ==
    << <<400, Dec(6, -2)>>, <<410, Dec(18, -2)>>, <<420, Dec(9, -1)>>,
       <<430, Dec(97, -2)>>, <<440, Dec(98, -2)>>, <<450, Dec(94, -2)>>,
       <<455, Dec(9, -1)>>, <<460, Dec(8, -1)>>, <<470, Dec(63, -2)>>,
       <<480, Dec(55, -2)>>, <<490, Dec(42, -2)>>, <<500, Dec(32, -2)>> >>

\* the items of the dict literal B_TABLE, in the order written
B_ITEMS ==
    << <<400, Dec(6, -2)>>, <<410, Dec(18, -2)>>, <<420, Dec(9, -1)>>,
       <<430, Dec(98, -2)>>, <<440, Dec(97, -2)>>, <<450, Dec(94, -2)>>,
       <<455, Dec(9, -1)>>, <<460, Dec(8, -1)>>, <<470, Dec(63, -2)>>,
       <<480, Dec(55, -2)>>, <<490, Dec(42, -2)>>, <<500, Dec(32, -2)>> >>

\* the dict built from a literal: a later item of the same key replaces an earlier one
DictOf(items) ==
    [key \in {items[i][1] : i \in 1..Len(items)} |->
        LET last == CHOOSE i \in 1..Len(items) :
                        /\ items[i][1] = key
                        /\ \A j \in 1..Len(items) : items[j][1] = key => j <= i
        IN  items[last][2]]

\* dict.keys(): the keys in insertion order
KeysOf(items) == [i \in 1..Len(items) |-> items[i][1]]

R_TABLE == DictOf(R_ITEMS)

B_TABLE == DictOf(B_ITEMS)

\* a wavelength is kept in half nanometres, so that 452.5 nm is a wavelength
HalfNm(nm) == 2 * nm

\* abs(k - nm), in half nanometres, of a key k and a wavelength h
AbsDiff(k, h) == IF HalfNm(k) >= h THEN HalfNm(k) - h ELSE h - HalfNm(k)

\* KeepsBest with <= for <: of two keys at the same distance the later one wins
KeepsBestLaterOnTie(best, k, h) == AbsDiff(best, h) < AbsDiff(k, h)

\* min keeps the item seen so far unless a later item has a strictly smaller key
KeepsBest(best, k, h) == ~(AbsDiff(k, h) < AbsDiff(best, h))

RECURSIVE MinByDist(_, _, _)
\* min(table_keys, key=lambda k: abs(k - nm)) over the keys not yet seen
MinByDist(keys, h, best) ==
    IF keys = <<>> THEN best
    ELSE MinByDist(Tail(keys), h,
                   IF KeepsBest(best, Head(keys), h) THEN best ELSE Head(keys))

\* nearest_nm(nm) with table_keys = R_TABLE.keys()
nearest_nm(h) ==
    LET table_keys == KeysOf(R_ITEMS)
    IN  MinByDist(Tail(table_keys), h, Head(table_keys))

(***************************************************************************)
(* iso15004_smallspot                                                      *)
(***************************************************************************)

\* the exposure time 6.2e-4 s above which the thermal and photochemical
\* hazards are evaluated
GateTime == Dec(62, -5)

\* SubstituteR with >= for > in the long-exposure rule
SubstituteRInclusive(R, pulse_duration_s, dwell_time_s) ==
    LET R1 == IF Lt(pulse_duration_s, Dec(1, -11)) /\ Lt(R, Dec(1, 0))
              THEN Dec(1, 0) ELSE R
    IN  IF Le(Dec(10, 0), dwell_time_s) /\ Gt(R1, Dec(1, 0))
        THEN Dec(1, 0) ELSE R1

\* R(lambda) substitution rules, applied in order
SubstituteR(R, pulse_duration_s, dwell_time_s) ==
    LET R1 == IF Lt(pulse_duration_s, Dec(1, -11)) /\ Lt(R, Dec(1, 0))
              THEN Dec(1, 0) ELSE R
    IN  IF Gt(dwell_time_s, Dec(10, 0)) /\ Gt(R1, Dec(1, 0))
        THEN Dec(1, 0) ELSE R1

\* A_cm2 = math.pi * r_cm**2 with d_mm = 0.03, r_cm = (d_mm / 2) / 10.0
A_cm2 ==
    LET d_mm == Dec(3, -2)
        r_cm == Div(Div(d_mm, Dec(2, 0)), Dec(10, 0))
    IN  Mul(Pi, Pow(r_cm, 2, 1))

\* Margin with 0.0 for float('inf')
MarginZeroSentinel(limit, energy) ==
    IF Gt(energy, Zero) THEN Div(limit, energy) ELSE Zero

\* limit / energy if energy > 0 else float('inf')
Margin(limit, energy) ==
    IF Gt(energy, Zero) THEN Div(limit, energy) ELSE PosInf

\* Gate with >= for >
GateInclusive(dwell_time_s) == Le(GateTime, dwell_time_s)

\* the exposure is long enough for the thermal and photochemical hazards
Gate(dwell_time_s) == Gt(dwell_time_s, GateTime)

\* thermal_limit = 1.7 * (dwell_time_s**0.75) * 1e-3
ThermalLimit(dwell_time_s) ==
    Mul(Mul(Dec(17, -1), Pow(dwell_time_s, 3, 4)), Dec(1, -3))

\* the governing hazard, from the two margins (each a float or None)
Governing(dwell_time_s, thermal_margin, photo_margin) ==
    IF Le(dwell_time_s, GateTime)
    THEN "Thermal only (photochemical not applicable)"
    ELSE IF Truthy(thermal_margin) /\ Truthy(photo_margin)
         THEN (IF Lt(photo_margin, thermal_margin)
               THEN "Photochemical" ELSE "Thermal")
    ELSE IF Truthy(thermal_margin) THEN "Thermal"
    ELSE IF Truthy(photo_margin) THEN "Photochemical"
    ELSE "Indeterminate"

\* TSafePhoto with the quotient upside down
TSafePhotoInverted(photo_limit, E_photo) ==
    IF Gt(E_photo, Zero) THEN Div(E_photo, photo_limit) ELSE PosInf

\* t_safe_photo = photo_limit / E_photo if E_photo > 0 else float('inf')
TSafePhoto(photo_limit, E_photo) == Margin(photo_limit, E_photo)

\* the locals of a call that raised: nothing is returned
Raised(exc) ==
    [raised |-> exc, nm |-> 0, R |-> None, B |-> None,
     E_pulse |-> None, E_pulse_eff |-> None, single_margin |-> None,
     E_eff |-> None, thermal_limit |-> None, thermal_margin |-> None,
     E_photo |-> None, H_photo |-> None, photo_margin |-> None,
     governing |-> "", t_safe_photo |-> None]

\* the locals of iso15004_smallspot when it reaches its report, or the exception
\* it raises; the report prints the locals and changes none of them
iso15004_smallspot(wavelength, power_pupil_W, dwell_time_s, rep_rate_Hz, pulse_duration_s) ==
    LET nm == nearest_nm(wavelength)
        R == SubstituteR(R_TABLE[nm], pulse_duration_s, dwell_time_s)
        B == B_TABLE[nm]
        E_pulse == Div(power_pupil_W, rep_rate_Hz)
        E_pulse_eff == Mul(R, E_pulse)
        single_limit == Dec(40, -9)
        E_eff == Mul(Mul(R, power_pupil_W), dwell_time_s)
        thermal_limit == IF Gate(dwell_time_s)
                         THEN ThermalLimit(dwell_time_s) ELSE None
        photo_limit == Dec(22, -1)
        E_photo == Div(Mul(power_pupil_W, B), A_cm2)
        H_photo == IF Gate(dwell_time_s)
                   THEN Mul(E_photo, dwell_time_s) ELSE None
        thermal_margin == IF Gate(dwell_time_s)
                          THEN Margin(thermal_limit, E_eff) ELSE None
        photo_margin == IF Gate(dwell_time_s)
                        THEN Margin(photo_limit, H_photo) ELSE None
    IN  IF DivRaises(power_pupil_W, rep_rate_Hz)
        THEN Raised("ZeroDivisionError")
        ELSE [raised |-> "none", nm |-> nm, R |-> R, B |-> B,
              E_pulse |-> E_pulse, E_pulse_eff |-> E_pulse_eff,
              single_margin |-> Margin(single_limit, E_pulse_eff),
              E_eff |-> E_eff, thermal_limit |-> thermal_limit,
              thermal_margin |-> thermal_margin,
              E_photo |-> E_photo, H_photo |-> H_photo,
              photo_margin |-> photo_margin,
              governing |-> Governing(dwell_time_s, thermal_margin, photo_margin),
              t_safe_photo |-> TSafePhoto(photo_limit, E_photo)]

(***************************************************************************)
(* parse_value                                                             *)
(*                                                                         *)
(* A string is a sequence of characters.  "micro" stands for the one       *)
(* character U+00B5.  The value returned is kept exactly, as the pair      *)
(* <<m, e>> of the decimal m * 10^e with m not a multiple of 10.           *)
(***************************************************************************)

IsSpace(c) == c = " "

IsDigit(c) == c \in {"0", "5"}

DigitValue(c) == IF c = "5" THEN 5 ELSE 0

RECURSIVE LStrip(_)
LStrip(str) ==
    IF str # <<>> /\ IsSpace(Head(str)) THEN LStrip(Tail(str)) ELSE str

RECURSIVE RStrip(_)
RStrip(str) ==
    IF str # <<>> /\ IsSpace(str[Len(str)])
    THEN RStrip(SubSeq(str, 1, Len(str) - 1)) ELSE str

\* str.strip()
Strip(str) == LStrip(RStrip(str))

\* c.lower()
LowerChar(c) ==
    CASE c = "T" -> "t"
      [] c = "G" -> "g"
      [] c = "M" -> "m"
      [] OTHER -> c

\* str.lower().replace(U+00B5, "u")
Canonical(str) ==
    [i \in 1..Len(str) |->
        IF LowerChar(str[i]) = "micro" THEN "u" ELSE LowerChar(str[i])]

\* the character class [0-9.]
NumClass(c) == IsDigit(c) \/ c = "."

\* the character class [tgmkmunpf]
PrefixClass(c) == c \in {"t", "g", "m", "k", "u", "n", "p", "f"}

RECURSIVE NumSpan(_, _)
\* the number of characters of [0-9.] from position i on (the greedy [0-9.]+)
NumSpan(str, i) ==
    IF i <= Len(str) /\ NumClass(str[i]) THEN 1 + NumSpan(str, i + 1) ELSE 0

RECURSIVE SpaceSpan(_, _)
\* the number of whitespace characters from position i on (the greedy \s*)
SpaceSpan(str, i) ==
    IF i <= Len(str) /\ IsSpace(str[i]) THEN 1 + SpaceSpan(str, i + 1) ELSE 0

\* re.match(r"([0-9.]+)\s*([tgmkmunpf]?)", str): the groups, or no match.
\* match anchors the pattern at the start of the string only
ReMatch(str) ==
    LET n == NumSpan(str, 1)
        w == SpaceSpan(str, n + 1)
        at == n + w + 1
    IN  IF n = 0 THEN [matched |-> FALSE, num |-> <<>>, prefix |-> ""]
        ELSE [matched |-> TRUE, num |-> SubSeq(str, 1, n),
              prefix |-> IF at <= Len(str) /\ PrefixClass(str[at])
                         THEN str[at] ELSE ""]

\* float(num) accepts a string of digits and dots: one dot at most, one digit at least
FloatAccepts(num) ==
    /\ Cardinality({i \in 1..Len(num) : num[i] = "."}) <= 1
    /\ \E i \in 1..Len(num) : IsDigit(num[i])

RECURSIVE DigitsValue(_)
\* the integer written by the digits of num, its dot left out
DigitsValue(num) ==
    IF num = <<>> THEN 0
    ELSE LET c == num[Len(num)]
             rest == DigitsValue(SubSeq(num, 1, Len(num) - 1))
         IN  IF c = "." THEN rest ELSE 10 * rest + DigitValue(c)

\* the number of digits after the dot of num
FractionDigits(num) ==
    IF \E i \in 1..Len(num) : num[i] = "."
    THEN Len(num) - (CHOOSE i \in 1..Len(num) : num[i] = ".")
    ELSE 0

RECURSIVE Normal(_, _)
\* m * 10^e with m not a multiple of 10; zero is <<0, 0>>
Normal(m, e) ==
    IF m = 0 THEN <<0, 0>>
    ELSE IF m % 10 = 0 THEN Normal(m \div 10, e + 1)
    ELSE <<m, e>>

\* the dict scale of parse_value: the decimal exponent of each prefix
ScaleExp(prefix) ==
    CASE prefix = "t" -> 12
      [] prefix = "g" -> 9
      [] prefix = "m" -> -3
      [] prefix = "k" -> 3
      [] prefix = "u" -> -6
      [] prefix = "n" -> -9
      [] prefix = "p" -> -12
      [] prefix = "f" -> -15
      [] prefix = "" -> 0

\* parse_value(val_str): the value returned or the exception raised
parse_value(val_str) ==
    LET str == Canonical(Strip(val_str))
        match == ReMatch(str)
    IN  IF ~match.matched \/ ~FloatAccepts(match.num)
        THEN [raised |-> "ValueError", value |-> <<0, 0>>]
        ELSE [raised |-> "none",
              value |-> Normal(DigitsValue(match.num),
                               ScaleExp(match.prefix) - FractionDigits(match.num))]

(***************************************************************************)
(* The calls                                                               *)
(***************************************************************************)

\* the longest string given to parse_value
MaxLen == 4

\* the wavelengths given to nearest_nm, in nm (every half nanometre between)
MinNm == 380

MaxNm == 520

Alphabet ==
    {"0", "5", ".", " ", "T", "G", "M", "k", "m", "u", "micro", "n", "p", "f", "x"}

Strings == UNION {[1..n -> Alphabet] : n \in 0..MaxLen}

Wavelengths == HalfNm(MinNm)..HalfNm(MaxNm)

\* 400, 405, 430, 452.5, 455, 500 and 600 nm
WavelengthIn == {HalfNm(400), HalfNm(405), HalfNm(430), HalfNm(452) + 1,
                 HalfNm(455), HalfNm(500), HalfNm(600)}

PowerIn ==
    {Zero, Dec(1, -320), Dec(5, -6), Dec(1, -3), Dec(1, 0), Dec(1, 302),
     Dec(1, 305), Dec(1, 308), PosInf, Nan, Neg(Dec(1, 0))}

DwellIn ==
    {Zero, Dec(1, -5), Dec(62, -5), Dec(63, -5), Dec(1, -1), Dec(1, 0),
     Dec(10, 0), Dec(2, 1), Dec(1, 4), PosInf, Nan, Neg(Dec(1, 0))}

RepRateIn == {Zero, Dec(59, 6), Dec(1, 0), Dec(1, -300), PosInf}

PulseIn == {Zero, Dec(6, -12), Dec(1, -11), Dec(1, -9)}

NoValue == <<>>

Init == pc = "idle" /\ args = NoValue /\ out = NoValue

CallParseValue ==
    /\ pc = "idle"
    /\ \E val_str \in Strings :
          /\ args' = val_str
          /\ out' = parse_value(val_str)
    /\ pc' = "parse_value"

CallNearestNm ==
    /\ pc = "idle"
    /\ \E nm \in Wavelengths :
          /\ args' = nm
          /\ out' = nearest_nm(nm)
    /\ pc' = "nearest_nm"

CallIso15004 ==
    /\ pc = "idle"
    /\ \E w \in WavelengthIn, p \in PowerIn, t \in DwellIn,
          r \in RepRateIn, d \in PulseIn :
          /\ args' = [wavelength_nm |-> w, power_pupil_W |-> p, dwell_time_s |-> t,
                      rep_rate_Hz |-> r, pulse_duration_s |-> d]
          /\ out' = iso15004_smallspot(w, p, t, r, d)
    /\ pc' = "iso15004_smallspot"

\* the call is over: its result goes to the caller and its locals are gone
Return ==
    /\ pc # "idle"
    /\ pc' = "idle"
    /\ args' = NoValue
    /\ out' = NoValue

NextParse == CallParseValue \/ Return

NextNearest == CallNearestNm \/ Return

NextIso == CallIso15004 \/ Return

Next == CallParseValue \/ CallNearestNm \/ CallIso15004 \/ Return

SpecParse == Init /\ [][NextParse]_vars

SpecNearest == Init /\ [][NextNearest]_vars

SpecIso == Init /\ [][NextIso]_vars

Spec == Init /\ [][Next]_vars

(***************************************************************************)
(* Properties of iso15004_smallspot                                        *)
(***************************************************************************)

\* iso15004_smallspot has just run
IsoDone == pc = "iso15004_smallspot"

\* iso15004_smallspot has just run and raised nothing
IsoReturned == IsoDone /\ out.raised = "none"

Positive(x) == Gt(x, Zero)

Finite(x) == x.k \in {"fin", "zero"}

\* the arguments satisfy the invariant of an exposure input: each is a finite
\* number that is not negative
OrdinaryArgs ==
    \A x \in {args.power_pupil_W, args.dwell_time_s,
              args.rep_rate_Hz, args.pulse_duration_s} : Finite(x) /\ Le(Zero, x)

\* C1, as claimed: whenever dwell_time_s > 6.2e-4 the governing hazard is
\* "Photochemical" if photo_margin < thermal_margin and "Thermal" otherwise, so
\* never "Indeterminate" and never "Thermal only (photochemical not applicable)".
\* Stated for finite arguments that are not negative, which the claim covers.
C1_GoverningIsSmallerMargin ==
    (IsoReturned /\ OrdinaryArgs /\ Gt(args.dwell_time_s, GateTime)) =>
        out.governing = IF Lt(out.photo_margin, out.thermal_margin)
                        THEN "Photochemical" ELSE "Thermal"

\* C2: whenever dwell_time_s <= 6.2e-4 (6.2e-4 included) the thermal limit, the
\* thermal margin, the photochemical dose and the photochemical margin are all
\* None and governing is "Thermal only (photochemical not applicable)"; whenever
\* dwell_time_s > 6.2e-4 none of the four is None.
C2_GateDecidesFields ==
    IsoReturned =>
        /\ Le(args.dwell_time_s, GateTime) =>
              /\ out.thermal_limit = None /\ out.thermal_margin = None
              /\ out.H_photo = None /\ out.photo_margin = None
              /\ out.governing = "Thermal only (photochemical not applicable)"
        /\ Gt(args.dwell_time_s, GateTime) =>
              /\ out.thermal_limit # None /\ out.thermal_margin # None
              /\ out.H_photo # None /\ out.photo_margin # None

\* a call with dwell_time_s = 6.2e-4 exactly has returned without the four fields
C2_Witness ==
    /\ IsoReturned
    /\ args.dwell_time_s = GateTime
    /\ out.thermal_margin = None /\ out.photo_margin = None
    /\ out.governing = "Thermal only (photochemical not applicable)"

\* C3, as claimed: iso15004_smallspot raises no exception, whatever its numeric
\* arguments are (rep_rate_Hz = 0 included).
C3_NeverRaises == IsoDone => out.raised = "none"

\* C7, as claimed: with power_pupil_W = 0 and a repetition rate that is not zero,
\* whatever the dwell time, nothing is raised and single_margin, thermal_margin
\* and photo_margin are all float('inf').
\* Stated for finite arguments that are not negative, which the claim covers.
C7_AllMarginsInfinite ==
    (IsoDone /\ OrdinaryArgs /\ args.power_pupil_W = Zero
     /\ args.rep_rate_Hz # Zero) =>
        /\ out.raised = "none"
        /\ out.single_margin = PosInf
        /\ out.thermal_margin = PosInf
        /\ out.photo_margin = PosInf

\* C7, amended: with power_pupil_W = 0 and a repetition rate that is not zero,
\* nothing is raised and single_margin is float('inf'); thermal_margin and
\* photo_margin are float('inf') when dwell_time_s > 6.2e-4 and None (absent)
\* otherwise.
C7_MarginsInfiniteWhenPresent ==
    (IsoDone /\ args.power_pupil_W = Zero /\ args.rep_rate_Hz # Zero) =>
        /\ out.raised = "none"
        /\ out.single_margin = PosInf
        /\ IF Gt(args.dwell_time_s, GateTime)
           THEN out.thermal_margin = PosInf /\ out.photo_margin = PosInf
           ELSE out.thermal_margin = None /\ out.photo_margin = None

\* a call with zero power and a dwell time of 0.1 s has returned infinite margins
C7_Witness ==
    /\ IsoReturned
    /\ args.power_pupil_W = Zero
    /\ args.dwell_time_s = Dec(1, -1)
    /\ out.single_margin = PosInf
    /\ out.thermal_margin = PosInf /\ out.photo_margin = PosInf

\* C8: the R used in the weighted computations is 1.0 when dwell_time_s > 10.0
\* and the tabulated 2.0 when dwell_time_s <= 10.0, for every wavelength and
\* every pulse duration, and E_pulse_eff is that R times
\* power_pupil_W / rep_rate_Hz.
C8_SubstitutedR ==
    IsoReturned =>
        /\ Gt(args.dwell_time_s, Dec(10, 0)) => out.R = Dec(1, 0)
        /\ Le(args.dwell_time_s, Dec(10, 0)) => out.R = Dec(2, 0)
        /\ out.E_pulse_eff =
              Mul(IF Gt(args.dwell_time_s, Dec(10, 0)) THEN Dec(1, 0) ELSE Dec(2, 0),
                  Div(args.power_pupil_W, args.rep_rate_Hz))

\* a 20 s exposure with an ultrashort pulse has been evaluated with R = 1.0
C8_Witness ==
    /\ IsoReturned
    /\ args.dwell_time_s = Dec(2, 1)
    /\ args.pulse_duration_s = Dec(6, -12)
    /\ args.power_pupil_W = Dec(5, -6)
    /\ args.rep_rate_Hz = Dec(59, 6)
    /\ out.R = Dec(1, 0)
    /\ out.E_pulse_eff = Div(Dec(5, -6), Dec(59, 6))

\* C9, as claimed: t_safe_photo is computed whether or not dwell_time_s > 6.2e-4
\* and is infinite when E_photo is not positive; for every input with positive
\* power and dwell_time_s > 6.2e-4, photo_margin * dwell_time_s = t_safe_photo,
\* and photo_margin >= 1 exactly when dwell_time_s <= t_safe_photo.
\* Stated for finite arguments that are not negative, which the claim covers.
C9_SafeTimeIsMarginTimesDwell ==
    (IsoReturned /\ OrdinaryArgs) =>
        /\ out.t_safe_photo # None
        /\ ~Positive(out.E_photo) => out.t_safe_photo = PosInf
        /\ (Positive(args.power_pupil_W) /\ Gt(args.dwell_time_s, GateTime)) =>
              /\ Mul(out.photo_margin, args.dwell_time_s) = out.t_safe_photo
              /\ Le(Dec(1, 0), out.photo_margin)
                    <=> Le(args.dwell_time_s, out.t_safe_photo)

\* C9, amended: t_safe_photo is computed whether or not dwell_time_s > 6.2e-4
\* and is infinite when E_photo is not positive; up to floating-point rounding,
\* for every input with positive power and finite dwell_time_s > 6.2e-4,
\* photo_margin >= 1 exactly when
\* dwell_time_s <= t_safe_photo, and photo_margin * dwell_time_s = t_safe_photo
\* whenever neither H_photo nor photo_margin has overflowed or underflowed (both
\* are finite and positive).
C9_SafeTimeWithinRange ==
    IsoReturned =>
        /\ out.t_safe_photo # None
        /\ ~Positive(out.E_photo) => out.t_safe_photo = PosInf
        /\ (Positive(args.power_pupil_W) /\ Gt(args.dwell_time_s, GateTime)
            /\ Finite(args.dwell_time_s)) =>
              /\ Le(Dec(1, 0), out.photo_margin)
                    <=> Le(args.dwell_time_s, out.t_safe_photo)
              /\ (out.H_photo.k = "fin" /\ out.photo_margin.k = "fin") =>
                    Mul(out.photo_margin, args.dwell_time_s) = out.t_safe_photo

\* 5 uW at 430 nm for 0.1 s: the margin times the dwell time is the safe time
C9_Witness ==
    /\ IsoReturned
    /\ args.power_pupil_W = Dec(5, -6)
    /\ args.dwell_time_s = Dec(1, -1)
    /\ out.nm = 430
    /\ out.photo_margin.k = "fin"
    /\ out.t_safe_photo.k = "fin"
    /\ Mul(out.photo_margin, args.dwell_time_s) = out.t_safe_photo

(***************************************************************************)
(* Properties of parse_value                                               *)
(***************************************************************************)

ParseDone == pc = "parse_value"

\* the prefix letters the documentation of parse_value lists, upper and lower
\* case as written there, with the decimal exponent each stands for
DocumentedScaleExp ==
    [c \in {"T", "G", "M", "k", "m", "u", "n", "p", "f"} |->
        CASE c = "T" -> 12
          [] c = "G" -> 9
          [] c = "M" -> 6
          [] c = "k" -> 3
          [] c = "m" -> -3
          [] c = "u" -> -6
          [] c = "n" -> -9
          [] c = "p" -> -12
          [] c = "f" -> -15]

\* a decimal number that is not negative: digits with one dot at most
IsDecimalNumber(str) ==
    /\ \A i \in 1..Len(str) : IsDigit(str[i]) \/ str[i] = "."
    /\ Cardinality({i \in 1..Len(str) : str[i] = "."}) <= 1
    /\ \E i \in 1..Len(str) : IsDigit(str[i])

\* the string without its last character
Front(str) == SubSeq(str, 1, Len(str) - 1)

\* a number followed by one prefix letter, in either case, or by the micro sign
HasPrefixLetter(str) ==
    /\ str # <<>>
    /\ \/ str[Len(str)] = "micro"
       \/ \E c \in DOMAIN DocumentedScaleExp :
             LowerChar(str[Len(str)]) = LowerChar(c)
    /\ IsDecimalNumber(Front(str))

\* exactly <decimal number><optional single prefix letter>
WellFormed(str) == IsDecimalNumber(str) \/ HasPrefixLetter(str)

\* C4, as claimed: parse_value raises ValueError for every string that, once the
\* surrounding whitespace is stripped, is not exactly a decimal number followed
\* by at most one prefix letter ("", "x", "5x", "5uu", "5 kg").
C4_RejectsMalformed ==
    (ParseDone /\ ~WellFormed(Strip(args))) => out.raised = "ValueError"

\* C5, as claimed: for a decimal number n followed by a documented prefix letter
\* (or by nothing), surrounding whitespace ignored, parse_value returns n times
\* the scale of the letter: T=1e12, G=1e9, M=1e6, k=1e3, m=1e-3, u=1e-6, n=1e-9,
\* p=1e-12, f=1e-15, and 1.0 without a letter.
C5_ScalesByDocumentedPrefix ==
    ParseDone =>
        LET str == Strip(args)
        IN  /\ IsDecimalNumber(str) =>
                  /\ out.raised = "none"
                  /\ out.value = Normal(DigitsValue(str), 0 - FractionDigits(str))
            /\ (str # <<>> /\ str[Len(str)] \in DOMAIN DocumentedScaleExp
                /\ IsDecimalNumber(Front(str))) =>
                  /\ out.raised = "none"
                  /\ out.value =
                        Normal(DigitsValue(Front(str)),
                               DocumentedScaleExp[str[Len(str)]]
                                   - FractionDigits(Front(str)))

(***************************************************************************)
(* Properties of the spectral tables and nearest_nm                        *)
(***************************************************************************)

NearestDone == pc = "nearest_nm"

\* 400, 410, ..., 500
TenStepGrid == {400 + 10 * i : i \in 0..10}

\* what the tables hold, whatever their keys are: the same keys in both, twelve
\* of them, from 400 to 500; R is 2.0 everywhere; B is 0.060 at 400, rises to its
\* single maximum 0.98 at 430 and falls from there to 0.320 at 500
TableValues ==
    /\ DOMAIN R_TABLE = DOMAIN B_TABLE
    /\ Cardinality(DOMAIN R_TABLE) = 12
    /\ \A k \in DOMAIN R_TABLE : 400 <= k /\ k <= 500 /\ R_TABLE[k] = Dec(2, 0)
    /\ {400, 500} \subseteq DOMAIN B_TABLE
    /\ B_TABLE[400] = Dec(6, -2) /\ B_TABLE[430] = Dec(98, -2)
    /\ B_TABLE[500] = Dec(32, -2)
    /\ \A j, k \in DOMAIN B_TABLE :
          /\ (j < k /\ k <= 430) => Lt(B_TABLE[j], B_TABLE[k])
          /\ (430 <= j /\ j < k) => Lt(B_TABLE[k], B_TABLE[j])

\* C6: nearest_nm returns, for every wavelength (inside 400-500 nm or outside),
\* a key of both tables at the least distance from the wavelength, the lowest
\* such key when two are at the same distance (405 -> 400, 452.5 -> 450), and
\* nearest_nm of the key returned is that key.
C6_NearestKey ==
    NearestDone =>
        /\ out \in DOMAIN R_TABLE /\ out \in DOMAIN B_TABLE
        /\ \A k \in DOMAIN R_TABLE :
              /\ AbsDiff(out, args) <= AbsDiff(k, args)
              /\ AbsDiff(k, args) = AbsDiff(out, args) => out <= k
        /\ nearest_nm(HalfNm(out)) = out
        /\ args = HalfNm(405) => out = 400
        /\ args = HalfNm(452) + 1 => out = 450

\* nearest_nm(452.5) has returned 450, the lower of the two keys 2.5 nm away
C6_Witness ==
    /\ NearestDone
    /\ args = HalfNm(452) + 1
    /\ AbsDiff(450, args) = AbsDiff(455, args)
    /\ out = 450

\* C10, as claimed: the tables hold 12 points from 400 to 500 nm, the same keys
\* in both, R = 2.0 at every point, B with its single maximum 0.98 at 430 nm and
\* decreasing toward both edges (0.060 at 400, 0.320 at 500), and the points are
\* 10 nm apart: every key a resolution returns is one of 400, 410, ..., 500.
C10_TenStepGrid ==
    /\ TableValues
    /\ NearestDone => out \in TenStepGrid

\* C10, amended: the tables hold 12 points, the same keys in both: 400 to 500 nm
\* in 10 nm steps and 455 nm besides; R = 2.0 at every point, B with its single
\* maximum 0.98 at 430 nm and decreasing toward both edges (0.060 at 400, 0.320
\* at 500); every key a resolution returns is one of these twelve.
C10_GridWith455 ==
    /\ TableValues
    /\ DOMAIN R_TABLE = TenStepGrid \cup {455}
    /\ NearestDone => out \in TenStepGrid \cup {455}

\* nearest_nm(455) has returned the key 455, which is no multiple of 10
C10_Witness ==
    /\ NearestDone
    /\ args = HalfNm(455)
    /\ out = 455

====
